---- MODULE Spec2Model ----
(***************************************************************************)
(* State-transition model of the ecodata-payout contract                   *)
(* (src/src/contract.rs, src/src/state.rs, src/src/msg.rs).                *)
(*                                                                         *)
(* The contract keeps one State record under the storage key "config".     *)
(* init writes it, the five HandleMsg variants load / check / mutate /     *)
(* save it, and the two QueryMsg variants project it.  Every entry point   *)
(* is one action; the record `last` remembers the call that was made, the  *)
(* storage it started from and what it returned.                           *)
(***************************************************************************)
EXTENDS Integers, FiniteSets, Sequences, TLC

VARIABLES storage, last, total_tokens_at_init, payout_log, former_owners

vars == <<storage, last, total_tokens_at_init, payout_log, former_owners>>

----------------------------------------------------------------------------
(* Bounds of the exploration *)

\* largest token allotment offered to init
MaxTokens == 2000

\* size of the negative token allotment offered to init (total_tokens is an
\* i64, so a message can carry one)
MaxDeficit == 5

(* Program constants *)

\* state.rs: pub static CONFIG_KEY: &[u8] = b"config";
CONFIG_KEY == "config"

\* contract.rs valid_ecostate: *ecostate >= 0 && *ecostate < 10000
ECOSTATE_MIN == 0
ECOSTATE_LIMIT == 10000

----------------------------------------------------------------------------
(* Inputs *)

\* human-readable addresses that the injected Api canonicalizes
ValidHuman == {"creator", "oracle", "anyone"}

\* a human address the injected Api rejects
MalformedHuman == {"this-human-address-is-too-long"}

HumanAddr == ValidHuman \cup MalformedHuman

Regions == {"angeles national forest", "amazon basin"}

\* addresses offered in each message field
InitSenders == {"creator", "anyone"}

InitBeneficiaries == {"anyone"} \cup MalformedHuman

InitOracles == {"oracle", "creator"} \cup MalformedHuman

NewBeneficiaries == {"oracle"} \cup MalformedHuman

NewOwners == {"anyone", "oracle"} \cup MalformedHuman

InitEcostates == {-1, 0, 3500, 10000}

UpdateEcostates == {-1, 3000, 4000, 5000, 10000}

TokenChoices == {-MaxDeficit, 0, 100, MaxTokens}

----------------------------------------------------------------------------
(* cosmwasm::errors::Result *)

Ok(v) == [ok |-> TRUE, val |-> v]

Err(e) == [ok |-> FALSE, err |-> e]

\* errors::unauthorized()
unauthorized == Err("Unauthorized")

\* errors::contract_err(msg)
contract_err(msg) == Err(msg)

MSG_LOCKED == "Contract is locked."

MSG_INVALID_ECOSTATE == "Invalid ecostate. Value must be integer between 0 and 10000"

MSG_NEGATIVE_PAYOUT == "Error: cannot payout negative ammount"

MSG_BAD_ADDRESS == "human encoding too long"

MSG_NOT_FOUND == "NotFound"

\* The canonical form of a human address: CanonicalAddr is a different type
\* from HumanAddr, produced only by the injected Api.
CanonicalTable ==
    [h \in ValidHuman |-> CASE h = "creator" -> 1
                            [] h = "oracle"  -> 2
                            [] OTHER         -> 3]

\* deps.api.canonical_address(&human)
canonical_address(human) ==
    IF human \in ValidHuman
    THEN Ok(CanonicalTable[human])
    ELSE contract_err(MSG_BAD_ADDRESS)

\* mock_env(&deps.api, signer, ..): env.message.signer
mock_env(sender) == [signer |-> canonical_address(sender).val]

----------------------------------------------------------------------------
(* state.rs: the singleton stored under CONFIG_KEY *)

EmptyStorage == [k \in {} |-> 0]

has_config(store) == CONFIG_KEY \in DOMAIN store

\* Singleton::load
load(store) ==
    IF has_config(store) THEN Ok(store[CONFIG_KEY]) ELSE Err(MSG_NOT_FOUND)

\* Singleton::save
save(store, state) == [k \in {CONFIG_KEY} |-> state]

----------------------------------------------------------------------------
(* contract.rs helpers *)

\* valid_ecostate with the upper comparison written <= instead of <
valid_ecostate_inclusive(ecostate) ==
    IF ecostate >= ECOSTATE_MIN /\ ecostate <= ECOSTATE_LIMIT
    THEN Ok(ecostate)
    ELSE contract_err(MSG_INVALID_ECOSTATE)

valid_ecostate(ecostate) ==
    IF ecostate >= ECOSTATE_MIN /\ ecostate < ECOSTATE_LIMIT
    THEN Ok(ecostate)
    ELSE contract_err(MSG_INVALID_ECOSTATE)

check_lock(state) ==
    IF state.is_locked THEN contract_err(MSG_LOCKED) ELSE Ok(TRUE)

\* execute_payout whose capped branch credits the requested amount instead of
\* the remaining total_tokens
execute_payout_overcredit(state, ecostate_delta) ==
    LET payout_amount == ecostate_delta IN
    IF payout_amount < 0
    THEN contract_err(MSG_NEGATIVE_PAYOUT)
    ELSE IF state.total_tokens >= payout_amount
         THEN Ok([state EXCEPT !.total_tokens = @ - payout_amount,
                               !.released_tokens = @ + payout_amount])
         ELSE Ok([state EXCEPT !.released_tokens = @ + payout_amount,
                               !.total_tokens = 0])

\* execute_payout without the cap: always moves the requested amount
execute_payout_uncapped(state, ecostate_delta) ==
    LET payout_amount == ecostate_delta IN
    IF payout_amount < 0
    THEN contract_err(MSG_NEGATIVE_PAYOUT)
    ELSE Ok([state EXCEPT !.total_tokens = @ - payout_amount,
                          !.released_tokens = @ + payout_amount])

\* execute_payout whose capped branch credits the remainder but forgets to
\* zero total_tokens
execute_payout_keep_remainder(state, ecostate_delta) ==
    LET payout_amount == ecostate_delta IN
    IF payout_amount < 0
    THEN contract_err(MSG_NEGATIVE_PAYOUT)
    ELSE IF state.total_tokens >= payout_amount
         THEN Ok([state EXCEPT !.total_tokens = @ - payout_amount,
                               !.released_tokens = @ + payout_amount])
         ELSE Ok([state EXCEPT !.released_tokens = @ + state.total_tokens])

execute_payout(state, ecostate_delta) ==
    LET payout_amount == ecostate_delta IN
    IF payout_amount < 0
    THEN contract_err(MSG_NEGATIVE_PAYOUT)
    ELSE IF state.total_tokens >= payout_amount
         THEN Ok([state EXCEPT !.total_tokens = @ - payout_amount,
                               !.released_tokens = @ + payout_amount])
         ELSE Ok([state EXCEPT !.released_tokens = @ + state.total_tokens,
                               !.total_tokens = 0])

\* What a call hands back: its Result and the storage it leaves behind.
Outcome(result, store) == [result |-> result, store |-> store]

----------------------------------------------------------------------------
(* contract.rs entry points, as functions of the storage they run on *)

\* init that records the oracle as owner instead of the signer
init_owner_from_oracle(store, env, msg) ==
    LET beneficiary == canonical_address(msg.beneficiary)
        ecostate    == valid_ecostate(msg.ecostate)
        oracle      == canonical_address(msg.oracle)
    IN  IF ~beneficiary.ok THEN Outcome(beneficiary, store)
        ELSE IF ~ecostate.ok THEN Outcome(ecostate, store)
        ELSE IF ~oracle.ok THEN Outcome(oracle, store)
        ELSE Outcome(Ok("Response"),
                     save(store, [beneficiary     |-> beneficiary.val,
                                  ecostate        |-> ecostate.val,
                                  oracle          |-> oracle.val,
                                  region          |-> msg.region,
                                  total_tokens    |-> msg.total_tokens,
                                  released_tokens |-> 0,
                                  owner           |-> oracle.val,
                                  is_locked       |-> FALSE]))

init(store, env, msg) ==
    LET beneficiary == canonical_address(msg.beneficiary)
        ecostate    == valid_ecostate(msg.ecostate)
        oracle      == canonical_address(msg.oracle)
    IN  IF ~beneficiary.ok THEN Outcome(beneficiary, store)
        ELSE IF ~ecostate.ok THEN Outcome(ecostate, store)
        ELSE IF ~oracle.ok THEN Outcome(oracle, store)
        ELSE Outcome(Ok("Response"),
                     save(store, [beneficiary     |-> beneficiary.val,
                                  ecostate        |-> ecostate.val,
                                  oracle          |-> oracle.val,
                                  region          |-> msg.region,
                                  total_tokens    |-> msg.total_tokens,
                                  released_tokens |-> 0,
                                  owner           |-> env.signer,
                                  is_locked       |-> FALSE]))

\* try_set_lock without the owner comparison
try_set_lock_unguarded(store, env, locked) ==
    LET loaded == load(store) IN
    IF ~loaded.ok THEN Outcome(loaded, store)
    ELSE LET state == loaded.val IN
         Outcome(Ok("Response"),
                 save(store, [state EXCEPT !.is_locked = locked]))

\* try_set_lock behind the lock gate like the other owner operations
try_set_lock_gated(store, env, locked) ==
    LET loaded == load(store) IN
    IF ~loaded.ok THEN Outcome(loaded, store)
    ELSE LET state  == loaded.val
             gate   == check_lock(state)
         IN  IF ~gate.ok THEN Outcome(gate, store)
             ELSE IF env.signer # state.owner
             THEN Outcome(unauthorized, store)
             ELSE Outcome(Ok("Response"),
                          save(store, [state EXCEPT !.is_locked = locked]))

try_set_lock(store, env, locked) ==
    LET loaded == load(store) IN
    IF ~loaded.ok THEN Outcome(loaded, store)
    ELSE LET state == loaded.val IN
         IF env.signer # state.owner
         THEN Outcome(unauthorized, store)
         ELSE Outcome(Ok("Response"),
                      save(store, [state EXCEPT !.is_locked = locked]))

\* try_change_beneficiary that writes the owner field
try_change_beneficiary_writes_owner(store, env, beneficiary) ==
    LET loaded == load(store) IN
    IF ~loaded.ok THEN Outcome(loaded, store)
    ELSE LET state  == loaded.val
             locked == check_lock(state)
             addr   == canonical_address(beneficiary)
         IN  IF ~locked.ok THEN Outcome(locked, store)
             ELSE IF env.signer # state.owner THEN Outcome(unauthorized, store)
             ELSE IF ~addr.ok THEN Outcome(addr, store)
             ELSE Outcome(Ok("Response"),
                          save(store, [state EXCEPT !.owner = addr.val]))

try_change_beneficiary(store, env, beneficiary) ==
    LET loaded == load(store) IN
    IF ~loaded.ok THEN Outcome(loaded, store)
    ELSE LET state  == loaded.val
             locked == check_lock(state)
             addr   == canonical_address(beneficiary)
         IN  IF ~locked.ok THEN Outcome(locked, store)
             ELSE IF env.signer # state.owner THEN Outcome(unauthorized, store)
             ELSE IF ~addr.ok THEN Outcome(addr, store)
             ELSE Outcome(Ok("Response"),
                          save(store, [state EXCEPT !.beneficiary = addr.val]))

\* try_update_ecostate comparing the signer with the owner, not the oracle
try_update_ecostate_owner_gate(store, env, ecostate) ==
    LET loaded == load(store) IN
    IF ~loaded.ok THEN Outcome(loaded, store)
    ELSE LET state  == loaded.val
             locked == check_lock(state)
             valid  == valid_ecostate(ecostate)
             ecostate_delta == ecostate - state.ecostate
             updated == [state EXCEPT !.ecostate = ecostate]
             paid   == IF ecostate_delta > 0
                       THEN execute_payout(updated, ecostate_delta)
                       ELSE Ok(updated)
         IN  IF ~locked.ok THEN Outcome(locked, store)
             ELSE IF env.signer # state.owner THEN Outcome(unauthorized, store)
             ELSE IF ~valid.ok THEN Outcome(valid, store)
             ELSE IF ~paid.ok THEN Outcome(paid, store)
             ELSE Outcome(Ok("Response"), save(store, paid.val))

\* try_update_ecostate that saves the new ecostate before validating it
try_update_ecostate_early_save(store, env, ecostate) ==
    LET loaded == load(store) IN
    IF ~loaded.ok THEN Outcome(loaded, store)
    ELSE LET state  == loaded.val
             locked == check_lock(state)
             valid  == valid_ecostate(ecostate)
             ecostate_delta == ecostate - state.ecostate
             updated == [state EXCEPT !.ecostate = ecostate]
             paid   == IF ecostate_delta > 0
                       THEN execute_payout(updated, ecostate_delta)
                       ELSE Ok(updated)
         IN  IF ~locked.ok THEN Outcome(locked, store)
             ELSE IF env.signer # state.oracle THEN Outcome(unauthorized, store)
             ELSE IF ~valid.ok THEN Outcome(valid, save(store, updated))
             ELSE IF ~paid.ok THEN Outcome(paid, store)
             ELSE Outcome(Ok("Response"), save(store, paid.val))

\* try_update_ecostate that validates the value before the lock and the signer
try_update_ecostate_validate_first(store, env, ecostate) ==
    LET loaded == load(store) IN
    IF ~loaded.ok THEN Outcome(loaded, store)
    ELSE LET state  == loaded.val
             locked == check_lock(state)
             valid  == valid_ecostate(ecostate)
             ecostate_delta == ecostate - state.ecostate
             updated == [state EXCEPT !.ecostate = ecostate]
             paid   == IF ecostate_delta > 0
                       THEN execute_payout(updated, ecostate_delta)
                       ELSE Ok(updated)
         IN  IF ~valid.ok THEN Outcome(valid, store)
             ELSE IF ~locked.ok THEN Outcome(locked, store)
             ELSE IF env.signer # state.oracle THEN Outcome(unauthorized, store)
             ELSE IF ~paid.ok THEN Outcome(paid, store)
             ELSE Outcome(Ok("Response"), save(store, paid.val))

\* try_update_ecostate that pays out on every change of ecostate, a fall
\* included
try_update_ecostate_pay_any_change(store, env, ecostate) ==
    LET loaded == load(store) IN
    IF ~loaded.ok THEN Outcome(loaded, store)
    ELSE LET state  == loaded.val
             locked == check_lock(state)
             valid  == valid_ecostate(ecostate)
             ecostate_delta == ecostate - state.ecostate
             updated == [state EXCEPT !.ecostate = ecostate]
             paid   == IF ecostate_delta # 0
                       THEN execute_payout(updated,
                                IF ecostate_delta > 0 THEN ecostate_delta
                                                      ELSE -ecostate_delta)
                       ELSE Ok(updated)
         IN  IF ~locked.ok THEN Outcome(locked, store)
             ELSE IF env.signer # state.oracle THEN Outcome(unauthorized, store)
             ELSE IF ~valid.ok THEN Outcome(valid, store)
             ELSE IF ~paid.ok THEN Outcome(paid, store)
             ELSE Outcome(Ok("Response"), save(store, paid.val))

try_update_ecostate(store, env, ecostate) ==
    LET loaded == load(store) IN
    IF ~loaded.ok THEN Outcome(loaded, store)
    ELSE LET state  == loaded.val
             locked == check_lock(state)
             valid  == valid_ecostate(ecostate)
             ecostate_delta == ecostate - state.ecostate
             updated == [state EXCEPT !.ecostate = ecostate]
             paid   == IF ecostate_delta > 0
                       THEN execute_payout(updated, ecostate_delta)
                       ELSE Ok(updated)
         IN  IF ~locked.ok THEN Outcome(locked, store)
             ELSE IF env.signer # state.oracle THEN Outcome(unauthorized, store)
             ELSE IF ~valid.ok THEN Outcome(valid, store)
             ELSE IF ~paid.ok THEN Outcome(paid, store)
             ELSE Outcome(Ok("Response"), save(store, paid.val))

\* try_transfer_ownership comparing the signer before looking at the lock
try_transfer_ownership_auth_first(store, env, owner) ==
    LET loaded == load(store) IN
    IF ~loaded.ok THEN Outcome(loaded, store)
    ELSE LET state  == loaded.val
             locked == check_lock(state)
             addr   == canonical_address(owner)
         IN  IF env.signer # state.owner THEN Outcome(unauthorized, store)
             ELSE IF ~locked.ok THEN Outcome(locked, store)
             ELSE IF ~addr.ok THEN Outcome(addr, store)
             ELSE Outcome(Ok("Response"),
                          save(store, [state EXCEPT !.owner = addr.val]))

\* try_transfer_ownership that writes the oracle field
try_transfer_ownership_writes_oracle(store, env, owner) ==
    LET loaded == load(store) IN
    IF ~loaded.ok THEN Outcome(loaded, store)
    ELSE LET state  == loaded.val
             locked == check_lock(state)
             addr   == canonical_address(owner)
         IN  IF ~locked.ok THEN Outcome(locked, store)
             ELSE IF env.signer # state.owner THEN Outcome(unauthorized, store)
             ELSE IF ~addr.ok THEN Outcome(addr, store)
             ELSE Outcome(Ok("Response"),
                          save(store, [state EXCEPT !.oracle = addr.val]))

\* try_transfer_ownership that records the new owner as beneficiary and
\* leaves the owner field alone
try_transfer_ownership_keeps_owner(store, env, owner) ==
    LET loaded == load(store) IN
    IF ~loaded.ok THEN Outcome(loaded, store)
    ELSE LET state  == loaded.val
             locked == check_lock(state)
             addr   == canonical_address(owner)
         IN  IF ~locked.ok THEN Outcome(locked, store)
             ELSE IF env.signer # state.owner THEN Outcome(unauthorized, store)
             ELSE IF ~addr.ok THEN Outcome(addr, store)
             ELSE Outcome(Ok("Response"),
                          save(store, [state EXCEPT !.beneficiary = addr.val]))

try_transfer_ownership(store, env, owner) ==
    LET loaded == load(store) IN
    IF ~loaded.ok THEN Outcome(loaded, store)
    ELSE LET state  == loaded.val
             locked == check_lock(state)
             addr   == canonical_address(owner)
         IN  IF ~locked.ok THEN Outcome(locked, store)
             ELSE IF env.signer # state.owner THEN Outcome(unauthorized, store)
             ELSE IF ~addr.ok THEN Outcome(addr, store)
             ELSE Outcome(Ok("Response"),
                          save(store, [state EXCEPT !.owner = addr.val]))

query_state(store) ==
    LET loaded == load(store) IN
    IF ~loaded.ok THEN Outcome(loaded, store)
    ELSE Outcome(Ok([state |-> loaded.val]), store)

\* query_ecostate behind the lock gate
query_ecostate_gated(store) ==
    LET loaded == load(store) IN
    IF ~loaded.ok THEN Outcome(loaded, store)
    ELSE LET gate == check_lock(loaded.val) IN
         IF ~gate.ok THEN Outcome(gate, store)
         ELSE Outcome(Ok([ecostate |-> loaded.val.ecostate]), store)

query_ecostate(store) ==
    LET loaded == load(store) IN
    IF ~loaded.ok THEN Outcome(loaded, store)
    ELSE Outcome(Ok([ecostate |-> loaded.val.ecostate]), store)

\* handle: the match over HandleMsg
handle(store, env, msg) ==
    CASE msg.variant = "Lock" -> try_set_lock(store, env, TRUE)
      [] msg.variant = "Unlock" -> try_set_lock(store, env, FALSE)
      [] msg.variant = "ChangeBeneficiary" ->
            try_change_beneficiary(store, env, msg.beneficiary)
      [] msg.variant = "UpdateEcostate" ->
            try_update_ecostate(store, env, msg.ecostate)
      [] msg.variant = "TransferOwnership" ->
            try_transfer_ownership(store, env, msg.owner)

\* query: the match over QueryMsg
query(store, msg) ==
    CASE msg.variant = "GetState" -> query_state(store)
      [] msg.variant = "GetEcostate" -> query_ecostate(store)

----------------------------------------------------------------------------
(* Messages *)

InitMsg ==
    [region : Regions, beneficiary : InitBeneficiaries, oracle : InitOracles,
     ecostate : InitEcostates, total_tokens : TokenChoices]

\* the record of one call: what was called, by whom, on which storage,
\* and what came back
Call(entry, sender, msg, pre, out) ==
    [entry |-> entry, sender |-> sender, msg |-> msg, pre |-> pre,
     result |-> out.result]

NoCall ==
    [entry |-> "none", sender |-> "none", msg |-> [variant |-> "none"],
     pre |-> EmptyStorage, result |-> Err("none")]

----------------------------------------------------------------------------
(* Actions *)

\* A HandleMsg is a record of the variant's fields and a `variant` tag.  The
\* tag is written last: that is the field order TLC keeps records in, and a
\* message built once per action instance is read by every worker.

\* Bookkeeping of what the calls did, kept beside the contract and never read
\* by it.  payout_log: the ecostate the record was created with and the sum of
\* the positive ecostate deltas of the successful UpdateEcostate calls since,
\* counted up to RiseCap.  former_owners: the owners that a successful
\* TransferOwnership to a different address replaced before the last call.
\* A specification keeps one of them (track) or neither; the other stays as
\* Init left it.
RiseCap == MaxTokens

NoLog == [start |-> 0, risen |-> 0]

LoggedPayout(entry, msg, out) ==
    IF entry = "init"
    THEN IF out.result.ok THEN [start |-> msg.ecostate, risen |-> 0]
                          ELSE payout_log
    ELSE IF /\ entry = "handle"
            /\ msg.variant = "UpdateEcostate"
            /\ out.result.ok
            /\ msg.ecostate > storage[CONFIG_KEY].ecostate
         THEN LET sum == payout_log.risen
                         + (msg.ecostate - storage[CONFIG_KEY].ecostate)
              IN  [payout_log EXCEPT
                      !.risen = IF sum <= RiseCap THEN sum ELSE RiseCap]
         ELSE payout_log

\* the owner that call replaced, if it was a successful hand-off
ReplacedBy(call) ==
    IF /\ call.entry = "handle"
       /\ call.result.ok
       /\ call.msg.variant = "TransferOwnership"
       /\ canonical_address(call.msg.owner).val # call.pre[CONFIG_KEY].owner
    THEN {call.pre[CONFIG_KEY].owner}
    ELSE {}

History(track, entry, msg, out) ==
    /\ payout_log' = IF track = "payout" THEN LoggedPayout(entry, msg, out)
                                         ELSE payout_log
    /\ former_owners' =
          IF track # "owners" THEN former_owners
          ELSE IF entry = "init"
               THEN IF out.result.ok THEN {} ELSE former_owners
               ELSE former_owners \cup ReplacedBy(last)

Init ==
    /\ storage = EmptyStorage
    /\ last = NoCall
    /\ total_tokens_at_init = <<>>
    /\ payout_log = NoLog
    /\ former_owners = {}

InitCall(sender, msg, track) ==
    LET out == init(storage, mock_env(sender), msg) IN
    /\ storage' = out.store
    /\ last' = Call("init", sender, msg, storage, out)
    /\ total_tokens_at_init' =
          IF out.result.ok THEN <<msg.total_tokens>>
                           ELSE total_tokens_at_init
    /\ History(track, "init", msg, out)

\* The host instantiates the contract: one init call on the empty storage.
DoInit ==
    /\ ~has_config(storage)
    /\ \E sender \in InitSenders, msg \in InitMsg :
          InitCall(sender, msg, "none")

HandleCall(sender, msg, track) ==
    LET out == handle(storage, mock_env(sender), msg) IN
    /\ storage' = out.store
    /\ last' = Call("handle", sender, msg, storage, out)
    /\ UNCHANGED total_tokens_at_init
    /\ History(track, "handle", msg, out)

HandleStep(sender, msg) == HandleCall(sender, msg, "none")

DoLock ==
    \E sender \in ValidHuman : HandleStep(sender, [variant |-> "Lock"])

DoUnlock ==
    \E sender \in ValidHuman : HandleStep(sender, [variant |-> "Unlock"])

DoChangeBeneficiary ==
    \E sender \in ValidHuman, beneficiary \in NewBeneficiaries :
        HandleStep(sender, [beneficiary |-> beneficiary,
                            variant |-> "ChangeBeneficiary"])

DoUpdateEcostate ==
    \E sender \in ValidHuman, ecostate \in UpdateEcostates :
        HandleStep(sender, [ecostate |-> ecostate,
                            variant |-> "UpdateEcostate"])

DoTransferOwnership ==
    \E sender \in ValidHuman, owner \in NewOwners :
        HandleStep(sender, [owner |-> owner, variant |-> "TransferOwnership"])

QueryCall(msg, track) ==
    LET out == query(storage, msg) IN
    /\ storage' = out.store
    /\ last' = Call("query", "none", msg, storage, out)
    /\ UNCHANGED total_tokens_at_init
    /\ History(track, "query", msg, out)

QueryStep(msg) == QueryCall(msg, "none")

DoGetState == QueryStep([variant |-> "GetState"])

DoGetEcostate == QueryStep([variant |-> "GetEcostate"])

Next ==
    \/ DoInit
    \/ DoLock
    \/ DoUnlock
    \/ DoChangeBeneficiary
    \/ DoUpdateEcostate
    \/ DoTransferOwnership
    \/ DoGetState
    \/ DoGetEcostate

Spec == Init /\ [][Next]_vars

----------------------------------------------------------------------------
(* A second init on an initialized contract.  init has no guard of its own; *)
(* whether a deployment can be initialized twice is left to the host.  This *)
(* specification lets the call happen, to see what the code does with it.   *)

ReInitSenders == {"anyone"}

ReInitMsg ==
    [region : {"amazon basin"}, beneficiary : {"anyone"},
     oracle : {"creator"}, ecostate : {3500, 10000}, total_tokens : {100}]

DoReInit ==
    /\ has_config(storage)
    /\ \E sender \in ReInitSenders, msg \in ReInitMsg :
          InitCall(sender, msg, "none")

NextReInit == Next \/ DoReInit

SpecReInit == Init /\ [][NextReInit]_vars

----------------------------------------------------------------------------
(* The same calls with the bookkeeping of `track` switched on. *)

TrackedInit(track) ==
    /\ ~has_config(storage)
    /\ \E sender \in InitSenders, msg \in InitMsg :
          InitCall(sender, msg, track)

TrackedLock(track) ==
    \E sender \in ValidHuman : HandleCall(sender, [variant |-> "Lock"], track)

TrackedUnlock(track) ==
    \E sender \in ValidHuman :
        HandleCall(sender, [variant |-> "Unlock"], track)

TrackedChangeBeneficiary(track) ==
    \E sender \in ValidHuman, beneficiary \in NewBeneficiaries :
        HandleCall(sender, [beneficiary |-> beneficiary,
                            variant |-> "ChangeBeneficiary"], track)

TrackedUpdateEcostate(track) ==
    \E sender \in ValidHuman, ecostate \in UpdateEcostates :
        HandleCall(sender, [ecostate |-> ecostate,
                            variant |-> "UpdateEcostate"], track)

TrackedTransferOwnership(track) ==
    \E sender \in ValidHuman, owner \in NewOwners :
        HandleCall(sender, [owner |-> owner, variant |-> "TransferOwnership"],
                   track)

TrackedGetState(track) == QueryCall([variant |-> "GetState"], track)

TrackedGetEcostate(track) == QueryCall([variant |-> "GetEcostate"], track)

TrackedNext(track) ==
    \/ TrackedInit(track)
    \/ TrackedLock(track)
    \/ TrackedUnlock(track)
    \/ TrackedChangeBeneficiary(track)
    \/ TrackedUpdateEcostate(track)
    \/ TrackedTransferOwnership(track)
    \/ TrackedGetState(track)
    \/ TrackedGetEcostate(track)

NextPayout == TrackedNext("payout")

SpecPayout == Init /\ [][NextPayout]_vars

NextHandOff == TrackedNext("owners")

SpecHandOff == Init /\ [][NextHandOff]_vars

----------------------------------------------------------------------------
(* Vocabulary of the properties *)

Initialized == has_config(storage)

\* the State record now, and the one the last call started from
Cur == storage[CONFIG_KEY]

Old == last.pre[CONFIG_KEY]

\* the last call was a Handle call on an initialized contract
Handled == last.entry = "handle" /\ has_config(last.pre)

HandledVariant(v) == Handled /\ last.msg.variant = v

\* env.message.signer of the last Handle call
Signer == mock_env(last.sender).signer

Succeeded == last.result.ok

FailedWith(e) == ~last.result.ok /\ last.result.err = e

Unchanged == storage = last.pre

InRange(e) == 0 <= e /\ e < 10000

Min(a, b) == IF a <= b THEN a ELSE b

OwnerOnly == {"Lock", "Unlock", "ChangeBeneficiary", "TransferOwnership"}

LockGated == {"ChangeBeneficiary", "UpdateEcostate", "TransferOwnership"}

----------------------------------------------------------------------------
\* C1 - Conservation: in every state reached from a successful init by Handle
\* calls (successful or failing, any sender), total_tokens + released_tokens
\* equals the total_tokens value supplied to init.
C1_Conservation ==
    Initialized =>
        Cur.total_tokens + Cur.released_tokens = total_tokens_at_init[1]

\* a payout that moved part of the allotment
C1_Witness ==
    /\ HandledVariant("UpdateEcostate") /\ Succeeded
    /\ Cur.released_tokens > Old.released_tokens
    /\ Cur.total_tokens > 0

\* C2 - Non-negativity: for every Init message init accepts and every sequence
\* of Handle calls after it, total_tokens >= 0 and released_tokens >= 0.
C2_NonNegative ==
    Initialized => Cur.total_tokens >= 0 /\ Cur.released_tokens >= 0

\* C3 - Ecostate range: every reachable state has 0 <= ecostate < 10000,
\* whatever Init message and whatever UpdateEcostate calls are applied.
C3_EcostateRange ==
    Initialized => 0 <= Cur.ecostate /\ Cur.ecostate < 10000

\* the oracle has just written a new ecostate
C3_Witness ==
    /\ HandledVariant("UpdateEcostate") /\ Succeeded
    /\ Cur.ecostate # Old.ecostate

\* C4 - Payout rule: a successful UpdateEcostate(new) sets ecostate = new; with
\* delta = new - old.ecostate, if delta > 0 then moved = min(old.total_tokens,
\* delta) leaves total_tokens by moved and enters released_tokens; if
\* delta <= 0 both counters are unchanged.
C4_PayoutRule ==
    (HandledVariant("UpdateEcostate") /\ Succeeded) =>
        LET new   == last.msg.ecostate
            delta == new - Old.ecostate
            moved == Min(Old.total_tokens, delta)
        IN  /\ Cur.ecostate = new
            /\ delta > 0 =>
                  /\ Cur.total_tokens = Old.total_tokens - moved
                  /\ Cur.released_tokens = Old.released_tokens + moved
            /\ delta <= 0 =>
                  /\ Cur.total_tokens = Old.total_tokens
                  /\ Cur.released_tokens = Old.released_tokens

\* a rise larger than the positive remaining allotment: the capped case
C4_Witness ==
    /\ HandledVariant("UpdateEcostate") /\ Succeeded
    /\ Old.total_tokens > 0
    /\ last.msg.ecostate - Old.ecostate > Old.total_tokens

\* C5 (as stated) - only the oracle may successfully execute UpdateEcostate;
\* every other sender receives Unauthorized and the record is unchanged.
C5_OracleOnly_Stated ==
    HandledVariant("UpdateEcostate") =>
        /\ Succeeded => Signer = Old.oracle
        /\ Signer # Old.oracle => FailedWith("Unauthorized") /\ Unchanged

\* C5 (amended) - only the oracle may successfully execute UpdateEcostate;
\* every other sender fails and leaves the record unchanged, with Unauthorized
\* when the contract is unlocked and with the lock error when it is locked.
C5_OracleOnly ==
    HandledVariant("UpdateEcostate") =>
        /\ Succeeded => Signer = Old.oracle
        /\ Signer # Old.oracle =>
              /\ Unchanged
              /\ ~Old.is_locked => FailedWith("Unauthorized")
              /\ Old.is_locked => FailedWith(MSG_LOCKED)

\* a sender other than the oracle offered a valid value to an unlocked contract
C5_Witness ==
    /\ HandledVariant("UpdateEcostate")
    /\ Signer # Old.oracle
    /\ ~Old.is_locked
    /\ InRange(last.msg.ecostate)
    /\ FailedWith("Unauthorized")

\* C6 (as stated) - only the current owner may successfully execute Lock,
\* Unlock, ChangeBeneficiary or TransferOwnership; every other sender receives
\* Unauthorized and nothing is mutated.
C6_OwnerOnly_Stated ==
    (Handled /\ last.msg.variant \in OwnerOnly) =>
        /\ Succeeded => Signer = Old.owner
        /\ Signer # Old.owner => FailedWith("Unauthorized") /\ Unchanged

\* C6 (amended) - only the current owner may successfully execute Lock,
\* Unlock, ChangeBeneficiary or TransferOwnership; every other sender fails and
\* nothing is mutated, with Unauthorized for Lock and Unlock always and for
\* ChangeBeneficiary and TransferOwnership on an unlocked contract, and with
\* the lock error for those two on a locked contract.
C6_OwnerOnly ==
    (Handled /\ last.msg.variant \in OwnerOnly) =>
        LET gated == last.msg.variant \in LockGated /\ Old.is_locked IN
        /\ Succeeded => Signer = Old.owner
        /\ Signer # Old.owner =>
              /\ Unchanged
              /\ ~gated => FailedWith("Unauthorized")
              /\ gated => FailedWith(MSG_LOCKED)

\* a sender other than the owner tried to lock an unlocked contract
C6_Witness ==
    /\ HandledVariant("Lock")
    /\ Signer # Old.owner
    /\ ~Old.is_locked
    /\ FailedWith("Unauthorized")

\* C7 - Lock gate: while is_locked, ChangeBeneficiary, UpdateEcostate and
\* TransferOwnership fail with the lock error whatever the sender and the
\* argument (the lock is looked at before the identity); Lock and Unlock sent
\* by the owner still succeed.
C7_LockGate ==
    (Handled /\ Old.is_locked) =>
        /\ last.msg.variant \in LockGated => FailedWith(MSG_LOCKED)
        /\ (last.msg.variant \in {"Lock", "Unlock"} /\ Signer = Old.owner) =>
              /\ Succeeded
              /\ Cur.is_locked = (last.msg.variant = "Lock")

\* the owner asked a locked contract to transfer ownership to a valid address
C7_Witness ==
    /\ HandledVariant("TransferOwnership")
    /\ Old.is_locked
    /\ Signer = Old.owner
    /\ last.msg.owner \in ValidHuman
    /\ FailedWith(MSG_LOCKED)

\* C8 (as stated) - UpdateEcostate with a value outside [0, 10000) fails with
\* the invalid-ecostate error and leaves the record unchanged.
C8_InvalidEcostate_Stated ==
    (HandledVariant("UpdateEcostate") /\ ~InRange(last.msg.ecostate)) =>
        FailedWith(MSG_INVALID_ECOSTATE) /\ Unchanged

\* C8 (amended) - UpdateEcostate with a value outside [0, 10000) always fails
\* and leaves the record unchanged; the failure is the invalid-ecostate error
\* when the oracle sends it to an unlocked contract (a locked contract answers
\* with the lock error, another sender gets Unauthorized).
C8_InvalidEcostate ==
    (HandledVariant("UpdateEcostate") /\ ~InRange(last.msg.ecostate)) =>
        /\ ~Succeeded
        /\ Unchanged
        /\ (Signer = Old.oracle /\ ~Old.is_locked) =>
              FailedWith(MSG_INVALID_ECOSTATE)

\* the oracle offered 10000 to an unlocked contract
C8_Witness ==
    /\ HandledVariant("UpdateEcostate")
    /\ last.msg.ecostate = 10000
    /\ Signer = Old.oracle
    /\ ~Old.is_locked
    /\ ~Succeeded

\* C9 - Failure atomicity: whenever a Handle call returns a failure, the
\* persisted record after the call is identical to the one before it.
C9_FailureAtomic ==
    (last.entry = "handle" /\ ~Succeeded) => Unchanged

\* the oracle's update was rejected for its value after passing lock and signer
C9_Witness ==
    /\ HandledVariant("UpdateEcostate")
    /\ FailedWith(MSG_INVALID_ECOSTATE)
    /\ last.msg.ecostate # Old.ecostate

\* C10 - Init postcondition: init succeeds exactly when both addresses are
\* well formed and the ecostate is in [0, 10000); on success the record holds
\* the message's region, beneficiary, oracle, ecostate and total_tokens, the
\* sender as owner, released_tokens = 0 and is_locked = FALSE, and GetEcostate
\* returns the supplied ecostate; on failure nothing is persisted.
C10_InitPost ==
    last.entry = "init" =>
        LET msg == last.msg IN
        /\ Succeeded <=> /\ msg.beneficiary \notin MalformedHuman
                         /\ msg.oracle \notin MalformedHuman
                         /\ InRange(msg.ecostate)
        /\ Succeeded =>
              /\ Initialized
              /\ Cur.region = msg.region
              /\ Cur.beneficiary = CanonicalTable[msg.beneficiary]
              /\ Cur.oracle = CanonicalTable[msg.oracle]
              /\ Cur.ecostate = msg.ecostate
              /\ Cur.total_tokens = msg.total_tokens
              /\ Cur.owner = CanonicalTable[last.sender]
              /\ Cur.released_tokens = 0
              /\ Cur.is_locked = FALSE
              /\ query(storage, [variant |-> "GetEcostate"]).result
                    = Ok([ecostate |-> msg.ecostate])
        /\ ~Succeeded => ~Initialized /\ Unchanged

\* an accepted Init message whose oracle is not its sender
C10_Witness ==
    /\ last.entry = "init" /\ Succeeded
    /\ last.msg.oracle # last.sender
    /\ last.msg.ecostate = 3500

----------------------------------------------------------------------------
\* the last call was a query on an initialized contract
Queried == last.entry = "query" /\ has_config(last.pre)

\* ecostate_delta of the last UpdateEcostate
Delta == last.msg.ecostate - Old.ecostate

\* C12 - oracle and region are immutable after init: no Handle variant, by any
\* sender, changes oracle or region.
C12_OracleRegionFixed ==
    Handled =>
        /\ Initialized
        /\ Cur.oracle = Old.oracle
        /\ Cur.region = Old.region

\* the owner handed the contract to an address that is not the oracle's
C12_Witness ==
    /\ HandledVariant("TransferOwnership") /\ Succeeded
    /\ Cur.owner # Old.owner
    /\ Cur.owner # Old.oracle

\* C13 - queries are read-only and ungated: on an initialized contract, locked
\* or not, GetState and GetEcostate succeed, leave the record unchanged, and
\* GetEcostate returns the ecostate field that GetState reports.
C13_QueriesReadOnly ==
    /\ Queried =>
          /\ Succeeded
          /\ Unchanged
          /\ last.msg.variant = "GetState" => last.result.val = [state |-> Old]
          /\ last.msg.variant = "GetEcostate" =>
                last.result.val = [ecostate |-> Old.ecostate]
    /\ Initialized =>
          LET e == query(storage, [variant |-> "GetEcostate"]).result
              g == query(storage, [variant |-> "GetState"]).result
          IN  e.ok /\ g.ok /\ e.val.ecostate = g.val.state.ecostate

\* GetEcostate was asked of a locked contract
C13_Witness ==
    /\ Queried
    /\ last.msg.variant = "GetEcostate"
    /\ Old.is_locked
    /\ Succeeded

\* C14 - the lock is always escapable: in every state with is_locked, an
\* Unlock sent by the current owner succeeds and clears is_locked, after which
\* a valid UpdateEcostate by the oracle succeeds; the owner cannot change
\* while the lock is set.
C14_LockEscapable ==
    /\ (Initialized /\ Cur.is_locked) =>
          LET out == handle(storage, [signer |-> Cur.owner],
                            [variant |-> "Unlock"])
          IN  out.result.ok /\ ~out.store[CONFIG_KEY].is_locked
    /\ (HandledVariant("Unlock") /\ Signer = Old.owner) =>
          /\ Succeeded
          /\ ~Cur.is_locked
          /\ \A e \in {x \in UpdateEcostates : InRange(x)} :
                handle(storage, [signer |-> Cur.oracle],
                       [ecostate |-> e, variant |-> "UpdateEcostate"]).result.ok
    /\ (Handled /\ Old.is_locked) => Cur.owner = Old.owner

\* the owner unlocked a locked contract
C14_Witness ==
    /\ HandledVariant("Unlock")
    /\ Old.is_locked
    /\ Succeeded
    /\ ~Cur.is_locked

\* C15 - check order of UpdateEcostate: the range validation runs only after
\* the lock gate and the signer comparison, so an out-of-range value gets the
\* lock error on a locked contract (also from the oracle), Unauthorized from a
\* non-oracle sender on an unlocked contract, and the invalid-ecostate error
\* only from the oracle on an unlocked contract.
C15_CheckOrder ==
    (HandledVariant("UpdateEcostate") /\ ~InRange(last.msg.ecostate)) =>
        /\ Old.is_locked => FailedWith(MSG_LOCKED)
        /\ (~Old.is_locked /\ Signer # Old.oracle) => FailedWith("Unauthorized")
        /\ (~Old.is_locked /\ Signer = Old.oracle) =>
              FailedWith(MSG_INVALID_ECOSTATE)

\* the oracle offered an out-of-range value to a locked contract
C15_Witness ==
    /\ HandledVariant("UpdateEcostate")
    /\ ~InRange(last.msg.ecostate)
    /\ Old.is_locked
    /\ Signer = Old.oracle
    /\ FailedWith(MSG_LOCKED)

\* C16 - saturation is absorbing: a positive delta larger than total_tokens
\* moves exactly total_tokens, and once total_tokens is 0 every later Handle
\* call leaves total_tokens = 0 and released_tokens unchanged, a successful
\* UpdateEcostate still writing the new ecostate.
C16_SaturationAbsorbing ==
    /\ (HandledVariant("UpdateEcostate") /\ Succeeded
            /\ Delta > 0 /\ Delta > Old.total_tokens) =>
          /\ Cur.total_tokens = 0
          /\ Cur.released_tokens = Old.released_tokens + Old.total_tokens
    /\ (Handled /\ Old.total_tokens = 0) =>
          /\ Cur.total_tokens = 0
          /\ Cur.released_tokens = Old.released_tokens
    /\ (HandledVariant("UpdateEcostate") /\ Succeeded
            /\ Old.total_tokens = 0) =>
          Cur.ecostate = last.msg.ecostate

\* an allotment of 100 is exhausted and the oracle reports another rise
C16_Witness ==
    /\ HandledVariant("UpdateEcostate") /\ Succeeded
    /\ Old.total_tokens = 0
    /\ Old.released_tokens = 100
    /\ Delta > 0

\* C17 - frame of each Handle variant: a successful Lock or Unlock changes
\* only is_locked, ChangeBeneficiary only beneficiary, TransferOwnership only
\* owner, UpdateEcostate only ecostate, total_tokens and released_tokens; so
\* the counters and ecostate change only through an UpdateEcostate sent by the
\* oracle.
C17_Frame ==
    /\ (Handled /\ Succeeded) =>
          /\ last.msg.variant \in {"Lock", "Unlock"} =>
                Cur = [Old EXCEPT !.is_locked = Cur.is_locked]
          /\ last.msg.variant = "ChangeBeneficiary" =>
                Cur = [Old EXCEPT !.beneficiary = Cur.beneficiary]
          /\ last.msg.variant = "TransferOwnership" =>
                Cur = [Old EXCEPT !.owner = Cur.owner]
          /\ last.msg.variant = "UpdateEcostate" =>
                Cur = [Old EXCEPT !.ecostate = Cur.ecostate,
                                  !.total_tokens = Cur.total_tokens,
                                  !.released_tokens = Cur.released_tokens]
    /\ ((Handled \/ Queried)
            /\ \/ Cur.ecostate # Old.ecostate
               \/ Cur.total_tokens # Old.total_tokens
               \/ Cur.released_tokens # Old.released_tokens) =>
          /\ HandledVariant("UpdateEcostate")
          /\ Signer = Old.oracle

\* the owner replaced the beneficiary
C17_Witness ==
    /\ HandledVariant("ChangeBeneficiary") /\ Succeeded
    /\ Cur.beneficiary # Old.beneficiary

\* C18 - no clawback: from one state to the next, released_tokens never
\* decreases and total_tokens never increases.
C18_NoClawback ==
    Handled =>
        /\ Cur.released_tokens >= Old.released_tokens
        /\ Cur.total_tokens <= Old.total_tokens

----------------------------------------------------------------------------
\* C11 - the record is created exactly once: an init call on an initialized
\* deployment fails and leaves the existing record unchanged.
C11_InitOnce ==
    (last.entry = "init" /\ has_config(last.pre)) => ~Succeeded /\ Unchanged

\* C19 - cumulative payout: after an init with total_tokens = T >= 0,
\* released_tokens equals min(T, sum of the positive ecostate deltas of all
\* successful UpdateEcostate calls).
C19_CumulativePayout ==
    (Initialized /\ total_tokens_at_init[1] >= 0) =>
        Cur.released_tokens = Min(total_tokens_at_init[1], payout_log.risen)

\* a rise that released tokens and left more released than the net ecostate
\* gain since init: the oracle had lowered the value in between
C19_Witness ==
    /\ HandledVariant("UpdateEcostate") /\ Succeeded
    /\ total_tokens_at_init[1] >= 0
    /\ Delta > 0
    /\ Cur.released_tokens > Old.released_tokens
    /\ Cur.ecostate > payout_log.start
    /\ Cur.released_tokens > Cur.ecostate - payout_log.start

\* the owner-only calls with well-formed arguments, answered on store for signer
OwnerCallsAnswer(store, signer, succeed) ==
    LET env == [signer |-> signer]
        fits(out) == IF succeed THEN out.result.ok
                                ELSE out.result = unauthorized
    IN  /\ fits(handle(store, env, [variant |-> "Lock"]))
        /\ fits(handle(store, env, [variant |-> "Unlock"]))
        /\ \A b \in NewBeneficiaries \cap ValidHuman :
              fits(handle(store, env,
                          [beneficiary |-> b, variant |-> "ChangeBeneficiary"]))
        /\ \A o \in NewOwners \cap ValidHuman :
              fits(handle(store, env,
                          [owner |-> o, variant |-> "TransferOwnership"]))

\* the argument of the last owner-only call is well formed
WellFormedArg ==
    /\ last.msg.variant = "ChangeBeneficiary" =>
          last.msg.beneficiary \in ValidHuman
    /\ last.msg.variant = "TransferOwnership" => last.msg.owner \in ValidHuman

\* C20 (as stated) - after a successful TransferOwnership to n, different from
\* the previous owner, every later Lock, Unlock, ChangeBeneficiary or
\* TransferOwnership sent by the previous owner fails with Unauthorized (on an
\* unlocked contract), and the same calls sent by n succeed.
C20_HandOff_Stated ==
    /\ (Handled /\ last.msg.variant \in OwnerOnly /\ ~Old.is_locked
            /\ Signer \in former_owners) =>
          FailedWith("Unauthorized")
    /\ (HandledVariant("TransferOwnership") /\ Succeeded
            /\ Cur.owner # Old.owner) =>
          OwnerCallsAnswer(storage, Cur.owner, TRUE)

\* C20 (amended) - after a successful TransferOwnership to n, different from
\* the previous owner, and until the owner field changes again, the owner-only
\* calls sent by the previous owner fail with Unauthorized (on an unlocked
\* contract) and those sent by n succeed; a replaced owner who is not the
\* current owner is always refused, and the current owner is always accepted
\* (ChangeBeneficiary and TransferOwnership on an unlocked contract with a
\* well-formed address): the signer is compared with the owner field of the
\* current state.
C20_HandOff ==
    /\ (HandledVariant("TransferOwnership") /\ Succeeded) =>
          Cur.owner = CanonicalTable[last.msg.owner]
    /\ (HandledVariant("TransferOwnership") /\ Succeeded
            /\ Cur.owner # Old.owner) =>
          /\ OwnerCallsAnswer(storage, Cur.owner, TRUE)
          /\ OwnerCallsAnswer(storage, Old.owner, FALSE)
    /\ (Handled /\ last.msg.variant \in OwnerOnly /\ ~Old.is_locked
            /\ Signer \in former_owners /\ Signer # Old.owner) =>
          FailedWith("Unauthorized") /\ Unchanged
    /\ (Handled /\ last.msg.variant \in OwnerOnly /\ Signer = Old.owner
            /\ ~(last.msg.variant \in LockGated /\ Old.is_locked)
            /\ WellFormedArg) =>
          Succeeded

\* a replaced owner, not handed the contract back, tried to lock it
C20_Witness ==
    /\ HandledVariant("Lock")
    /\ ~Old.is_locked
    /\ Signer \in former_owners
    /\ Signer # Old.owner
    /\ FailedWith("Unauthorized")

====
